---- MODULE Spec2Model ----
(***************************************************************************)
(* Model of ingestion_program/datasets.py: the class Data, which holds the *)
(* train and the test partition of one input directory, and its methods.   *)
(*                                                                         *)
(* A Data object is the record of its instance attributes.  Every method   *)
(* is an operator from the object (and the method's inputs) to an outcome: *)
(* the object after the call, the exception that left the call (or "ok"),  *)
(* the value returned, the calls made into the systematics module and the  *)
(* number of times load_train_set ran.  One action per method applies it.  *)
(***************************************************************************)
EXTENDS Integers, Sequences, FiniteSets, TLC

VARIABLES train_set, test_set, ground_truth_mus, last

vars == <<train_set, test_set, ground_truth_mus, last>>

(***************************************************************************)
(* Bounds.                                                                 *)
(***************************************************************************)
\* File contents are numbered 1..MaxVersion.
MaxVersion == 2

Versions == 1..MaxVersion

\* A text file has at most MaxTextLen characters, a table at most
\* MaxTextLen rows.
MaxTextLen == 3

(***************************************************************************)
(* Python values.                                                          *)
(***************************************************************************)
None == [tag |-> "None"]

\* An instance attribute that does not exist (never assigned, or removed by
\* del): reading it raises AttributeError.
NoAttr == [tag |-> "NoAttr"]

Dict(items) == [tag |-> "dict", items |-> items]

IsDict(v) == v.tag = "dict"

\* The value found under the key ground_truth_mus of a settings file with
\* contents c.
Mus(c) == [tag |-> "ground_truth_mus", of |-> c]

(***************************************************************************)
(* The input directory.  A snapshot gives each file its status at the time *)
(* of a call: present with some contents, missing, or present but not      *)
(* parseable.  The test settings file may also be valid JSON without the   *)
(* key ground_truth_mus.                                                   *)
(***************************************************************************)
Ok(c) == [st |-> "ok", c |-> c]

Missing == [st |-> "missing"]

Malformed == [st |-> "malformed"]

NoKey == [st |-> "nokey"]

train_labels_file == "train/labels/data.labels"

train_settings_file == "train/settings/data.json"

train_weights_file == "train/weights/data.weights"

train_detailed_labels_file == "train/detailed_labels/data.detailed_labels"

train_data_file == "train/data/data.parquet"

test_settings_file == "test/settings/data.json"

\* The files load_train_set reads.
TrainFiles ==
    {train_labels_file, train_settings_file, train_weights_file,
     train_detailed_labels_file, train_data_file, test_settings_file}

\* The keys of the test set, one parquet file each.
TestKeys == {"ztautau", "diboson", "ttbar", "htautau"}

\* The order in which the dict literal of load_test_set is iterated.
TestKeyOrder == <<"ztautau", "diboson", "ttbar", "htautau">>

test_data_path(key) == "test/data/" \o key \o "_data.parquet"

TestFiles == {test_data_path(k) : k \in TestKeys}

Uniform(files, v) == [f \in files |-> Ok(v)]

\* The statuses a file can have instead of Ok(v): the version that follows
\* v, or no readable contents.
Deviations(f, v) ==
    {Ok((v % MaxVersion) + 1), Missing, Malformed}
        \cup (IF f = test_settings_file THEN {NoKey} ELSE {})

\* The directory trees a call can find: every file present with the same
\* version, or such a tree in which one file deviates.
Snapshots(files) ==
    {Uniform(files, v) : v \in Versions} \cup
    UNION {UNION {{[Uniform(files, v) EXCEPT ![f] = s] : s \in Deviations(f, v)}
                    : f \in files} : v \in Versions}

TrainSnapshots == Snapshots(TrainFiles)

TestSnapshots == Snapshots(TestFiles)

NoDisk == [f \in {} |-> Missing]

(***************************************************************************)
(* Text files.  A text is a sequence of characters; the labels, weights    *)
(* and detailed labels are read with f.read().splitlines(), and the labels *)
(* and weights are then converted with np.array(..., dtype=float).         *)
(***************************************************************************)
Newline == "\n"

Text(chars) == [st |-> "text", text |-> chars]

\* The index of the first line break of text at or after i, or
\* Len(text) + 1.
RECURSIVE line_end(_, _)
line_end(text, i) ==
    IF i > Len(text) \/ text[i] = Newline THEN i ELSE line_end(text, i + 1)

\* str.split("\n") in the place of str.splitlines(): the text after the
\* last line break is a line too, also when it is empty.
RECURSIVE split_newline_from(_, _, _)
split_newline_from(text, j, lines) ==
    LET eol == line_end(text, j)
        line == SubSeq(text, j, eol - 1)
    IN  IF eol > Len(text) THEN Append(lines, line)
        ELSE split_newline_from(text, eol + 1, Append(lines, line))

\* str.splitlines from position j on: the characters up to the next line
\* break are a line, the break is skipped, and the scan ends at the end of
\* the text.
RECURSIVE splitlines_from(_, _, _)
splitlines_from(text, j, lines) ==
    IF j > Len(text) THEN lines
    ELSE LET eol == line_end(text, j)
         IN  splitlines_from(text, eol + 1,
                             Append(lines, SubSeq(text, j, eol - 1)))

\* A slip: the text is split at "\n" instead.
split_newline(text) == split_newline_from(text, 1, <<>>)

\* str.splitlines
splitlines(text) == splitlines_from(text, 1, <<>>)

\* float(line) for a line of digits 1; the empty line is no number.
RECURSIVE float_of(_)
float_of(line) ==
    IF Len(line) = 1 THEN 1
    ELSE 10 * float_of(SubSeq(line, 1, Len(line) - 1)) + 1

\* np.array(lines, dtype=float): one number per line, ValueError when a
\* line is no number.
float_array(lines) ==
    IF \E i \in 1..Len(lines) : lines[i] = <<>>
    THEN [exc |-> "ValueError", v |-> <<>>]
    ELSE [exc |-> "ok", v |-> [i \in 1..Len(lines) |-> float_of(lines[i])]]

\* What load_train_set makes of the text of file f.
read_text(f, text) ==
    LET lines == splitlines(text)
        array == float_array(lines)
    IN  IF f = train_detailed_labels_file
        THEN [exc |-> "ok", v |-> [st |-> "ok", c |-> lines]]
        ELSE IF array.exc # "ok" THEN [exc |-> array.exc, v |-> 0]
        ELSE [exc |-> "ok", v |-> [st |-> "ok", c |-> array.v]]

(***************************************************************************)
(* Reading one file: open() raises FileNotFoundError on a missing file,    *)
(* and the parsers (float conversion, json.load, read_parquet) raise a     *)
(* ValueError on contents they cannot parse.  A file given as a text is    *)
(* parsed character by character.                                          *)
(***************************************************************************)
ReadFile(disk, f) ==
    CASE disk[f].st = "missing"   -> [exc |-> "FileNotFoundError", v |-> 0]
      [] disk[f].st = "malformed" -> [exc |-> "ValueError", v |-> 0]
      [] disk[f].st = "text"      -> read_text(f, disk[f].text)
      [] OTHER                    -> [exc |-> "ok", v |-> disk[f]]

(***************************************************************************)
(* Outcome of a method call.                                               *)
(***************************************************************************)
Outcome(self, exc, ret, calls, loads) ==
    [self |-> self, exc |-> exc, ret |-> ret, calls |-> calls, loads |-> loads]

Return(self, ret, calls, loads) == Outcome(self, "ok", ret, calls, loads)

Raise(self, exc, calls, loads) == Outcome(self, exc, None, calls, loads)

\* Data.__init__
DataInit ==
    [train_set |-> None, test_set |-> None, ground_truth_mus |-> NoAttr]

\* A slip in the path: the settings of the train tree are read instead.
read_test_settings_from_train(disk) == ReadFile(disk, train_settings_file)

\* The read of the test settings at the end of load_train_set.
read_test_settings(disk) == ReadFile(disk, test_settings_file)

\* A slip: a dict the object already holds is filled in, and its settings
\* are not written again.
train_partition_merged(self, data, labels, settings, weights, detailed) ==
    Dict([data |-> data, labels |-> labels,
          settings |-> IF IsDict(self.train_set)
                       THEN self.train_set.items.settings ELSE settings,
          weights |-> weights, detailed_labels |-> detailed])

\* The dict literal that load_train_set assigns to the attribute.
train_partition(self, data, labels, settings, weights, detailed) ==
    Dict([data |-> data, labels |-> labels, settings |-> settings,
          weights |-> weights, detailed_labels |-> detailed])

\* A slip: a train set already held is kept instead of being read again;
\* the test for it reads the attribute.
load_train_set_once(self, disk) ==
    IF self.train_set = NoAttr THEN Raise(self, "AttributeError", <<>>, 1)
    ELSE IF IsDict(self.train_set) THEN Return(self, None, <<>>, 1)
    ELSE
    LET labels == ReadFile(disk, train_labels_file)
        settings == ReadFile(disk, train_settings_file)
        weights == ReadFile(disk, train_weights_file)
        detailed == ReadFile(disk, train_detailed_labels_file)
        data == ReadFile(disk, train_data_file)
        test_settings == read_test_settings(disk)
        installed ==
            [self EXCEPT !.train_set =
                train_partition(self, data.v.c, labels.v.c, settings.v.c,
                                weights.v.c, detailed.v.c)]
    IN  IF labels.exc # "ok" THEN Raise(self, labels.exc, <<>>, 1)
        ELSE IF settings.exc # "ok" THEN Raise(self, settings.exc, <<>>, 1)
        ELSE IF weights.exc # "ok" THEN Raise(self, weights.exc, <<>>, 1)
        ELSE IF detailed.exc # "ok" THEN Raise(self, detailed.exc, <<>>, 1)
        ELSE IF data.exc # "ok" THEN Raise(self, data.exc, <<>>, 1)
        ELSE IF test_settings.exc # "ok"
             THEN Raise(installed, test_settings.exc, <<>>, 1)
        ELSE IF test_settings.v.st = "nokey"
             THEN Raise(installed, "KeyError", <<>>, 1)
        ELSE Return([installed EXCEPT !.ground_truth_mus = Mus(test_settings.v.c)],
                    None, <<>>, 1)

\* Data.load_train_set
load_train_set(self, disk) ==
    LET labels == ReadFile(disk, train_labels_file)
        settings == ReadFile(disk, train_settings_file)
        weights == ReadFile(disk, train_weights_file)
        detailed == ReadFile(disk, train_detailed_labels_file)
        data == ReadFile(disk, train_data_file)
        test_settings == read_test_settings(disk)
        installed ==
            [self EXCEPT !.train_set =
                train_partition(self, data.v.c, labels.v.c, settings.v.c,
                                weights.v.c, detailed.v.c)]
    IN  IF labels.exc # "ok" THEN Raise(self, labels.exc, <<>>, 1)
        ELSE IF settings.exc # "ok" THEN Raise(self, settings.exc, <<>>, 1)
        ELSE IF weights.exc # "ok" THEN Raise(self, weights.exc, <<>>, 1)
        ELSE IF detailed.exc # "ok" THEN Raise(self, detailed.exc, <<>>, 1)
        ELSE IF data.exc # "ok" THEN Raise(self, data.exc, <<>>, 1)
        ELSE IF test_settings.exc # "ok"
             THEN Raise(installed, test_settings.exc, <<>>, 1)
        ELSE IF test_settings.v.st = "nokey"
             THEN Raise(installed, "KeyError", <<>>, 1)
        ELSE Return([installed EXCEPT !.ground_truth_mus = Mus(test_settings.v.c)],
                    None, <<>>, 1)

\* pd.DataFrame(): the empty table each key of the local test_set holds
\* before its file is read.
EmptyFrame == 0

\* The for loop of load_test_set, from the i-th key on: each file read is
\* stored under its key in the local dict test_set; a failing read leaves
\* the loop (and the method) with the exception.
RECURSIVE load_test_loop(_, _, _)
load_test_loop(local, disk, i) ==
    IF i > Len(TestKeyOrder) THEN [exc |-> "ok", local |-> local]
    ELSE LET key == TestKeyOrder[i]
             table == ReadFile(disk, test_data_path(key))
         IN  IF table.exc # "ok" THEN [exc |-> table.exc, local |-> local]
             ELSE load_test_loop([local EXCEPT ![key] = table.v.c], disk, i + 1)

\* A slip: the loop fills the dict the object already holds, so the tables
\* read before a failing read stay installed.
load_test_set_inplace(self, disk) ==
    LET loop ==
            load_test_loop(IF IsDict(self.test_set) THEN self.test_set.items
                           ELSE [k \in TestKeys |-> EmptyFrame], disk, 1)
    IN  IF loop.exc # "ok"
        THEN Raise([self EXCEPT !.test_set = Dict(loop.local)], loop.exc, <<>>, 0)
        ELSE Return([self EXCEPT !.test_set = Dict(loop.local)], None, <<>>, 0)

\* A slip in the attribute name: the tables read are installed as the
\* train set.
load_test_set_into_train(self, disk) ==
    LET loop == load_test_loop([k \in TestKeys |-> EmptyFrame], disk, 1)
    IN  IF loop.exc # "ok" THEN Raise(self, loop.exc, <<>>, 0)
        ELSE Return([self EXCEPT !.train_set = Dict(loop.local)], None, <<>>, 0)

\* Data.load_test_set
load_test_set(self, disk) ==
    LET loop == load_test_loop([k \in TestKeys |-> EmptyFrame], disk, 1)
    IN  IF loop.exc # "ok" THEN Raise(self, loop.exc, <<>>, 0)
        ELSE Return([self EXCEPT !.test_set = Dict(loop.local)], None, <<>>, 0)

\* Data.get_train_set
get_train_set(self) ==
    IF self.train_set = NoAttr THEN Raise(self, "AttributeError", <<>>, 0)
    ELSE Return(self, self.train_set, <<>>, 0)

\* Data.get_test_set
get_test_set(self) ==
    IF self.test_set = NoAttr THEN Raise(self, "AttributeError", <<>>, 0)
    ELSE Return(self, self.test_set, <<>>, 0)

\* A slip in the attribute name: the test set is removed.
delete_test_set(self) ==
    IF self.test_set = NoAttr THEN Raise(self, "AttributeError", <<>>, 0)
    ELSE Return([self EXCEPT !.test_set = NoAttr], None, <<>>, 0)

\* A slip: the cached ground truth is dropped with the train set.
delete_train_set_and_truth(self) ==
    IF self.train_set = NoAttr THEN Raise(self, "AttributeError", <<>>, 0)
    ELSE Return([self EXCEPT !.train_set = NoAttr, !.ground_truth_mus = NoAttr],
                None, <<>>, 0)

\* Data.delete_train_set: del self.__train_set removes the attribute, and
\* raises AttributeError when the attribute does not exist.
delete_train_set(self) ==
    IF self.train_set = NoAttr THEN Raise(self, "AttributeError", <<>>, 0)
    ELSE Return([self EXCEPT !.train_set = NoAttr], None, <<>>, 0)

(***************************************************************************)
(* The systematics module.  Its functions are deterministic functions of   *)
(* their arguments; a result is the term that names the function and the   *)
(* arguments it was applied to.  A function raises on an argument it       *)
(* cannot work on: a data set that is no dict, a parameter out of range.   *)
(***************************************************************************)
OutOfRange == "-1.0"

Call(fn, args) == [fn |-> fn, args |-> args]

Term(fn, args) == [tag |-> fn, args |-> args]

Rejects(data, params) ==
    \/ ~IsDict(data) /\ data.tag \in {"None", "NoAttr"}
    \/ \E i \in 1..Len(params) : params[i] = OutOfRange

\* systematics.get_bootstraped_dataset
get_bootstraped_dataset(test, mu, ttbar_scale, diboson_scale, bkg_scale, seed) ==
    IF Rejects(test, <<mu, ttbar_scale, diboson_scale, bkg_scale, seed>>)
    THEN [exc |-> "SystematicsError", v |-> None]
    ELSE [exc |-> "ok",
          v |-> Term("get_bootstraped_dataset",
                     <<test, mu, ttbar_scale, diboson_scale, bkg_scale, seed>>)]

\* systematics.get_systematics_dataset
get_systematics_dataset(data, tes, jes, soft_met) ==
    IF Rejects(data, <<tes, jes, soft_met>>)
    THEN [exc |-> "SystematicsError", v |-> None]
    ELSE [exc |-> "ok",
          v |-> Term("get_systematics_dataset", <<data, tes, jes, soft_met>>)]

\* systematics.systematics
systematics(data, tes, jes, soft_met, ttbar_scale, diboson_scale, bkg_scale) ==
    IF Rejects(data, <<tes, jes, soft_met, ttbar_scale, diboson_scale, bkg_scale>>)
    THEN [exc |-> "SystematicsError", v |-> None]
    ELSE [exc |-> "ok",
          v |-> Term("systematics",
                     <<data, tes, jes, soft_met, ttbar_scale, diboson_scale,
                       bkg_scale>>)]

\* The parameter tuples of generate_psuedo_exp_data.
GenerateArgs ==
    [set_mu : {"1"}, tes : {"1.0", OutOfRange}, jes : {"1.0"},
     soft_met : {"0.0"}, ttbar_scale : {"None", OutOfRange},
     diboson_scale : {"None"}, bkg_scale : {"None"}, seed : {"42", "43"}]

\* The parameter tuples of get_syst_train_set.
SystArgs ==
    [tes : {"1.0", OutOfRange}, jes : {"1.0"}, soft_met : {"0.0"},
     ttbar_scale : {"None"}, diboson_scale : {"None"}, bkg_scale : {"None"}]

\* A slip: the systematics are applied to the data set itself, not to the
\* bootstrap's result, and also after a bootstrap that raised.
pseudo_experiment_unchained(test, a) ==
    LET bootArgs == <<test, a.set_mu, a.ttbar_scale, a.diboson_scale,
                      a.bkg_scale, a.seed>>
        systArgs == <<test, a.tes, a.jes, a.soft_met>>
        result == get_systematics_dataset(test, a.tes, a.jes, a.soft_met)
        calls == <<Call("get_bootstraped_dataset", bootArgs),
                   Call("get_systematics_dataset", systArgs)>>
    IN  IF result.exc # "ok"
        THEN [exc |-> result.exc, ret |-> None, calls |-> calls]
        ELSE [exc |-> "ok", ret |-> result.v, calls |-> calls]

\* The two steps of generate_psuedo_exp_data on the data set it is given:
\* the bootstrap, then the systematics on the bootstrap's result.  An
\* exception of either step leaves the method at once.
pseudo_experiment(test, a) ==
    LET bootArgs == <<test, a.set_mu, a.ttbar_scale, a.diboson_scale,
                      a.bkg_scale, a.seed>>
        pesudo_exp_data ==
            get_bootstraped_dataset(test, a.set_mu, a.ttbar_scale,
                                    a.diboson_scale, a.bkg_scale, a.seed)
        systArgs == <<pesudo_exp_data.v, a.tes, a.jes, a.soft_met>>
        result ==
            get_systematics_dataset(pesudo_exp_data.v, a.tes, a.jes, a.soft_met)
        calls1 == <<Call("get_bootstraped_dataset", bootArgs)>>
        calls2 == Append(calls1, Call("get_systematics_dataset", systArgs))
    IN  IF pesudo_exp_data.exc # "ok"
        THEN [exc |-> pesudo_exp_data.exc, ret |-> None, calls |-> calls1]
        ELSE IF result.exc # "ok"
        THEN [exc |-> result.exc, ret |-> None, calls |-> calls2]
        ELSE [exc |-> "ok", ret |-> result.v, calls |-> calls2]

\* A slip: the result replaces the stored test set.
generate_and_store(self, a) ==
    IF self.test_set = NoAttr THEN Raise(self, "AttributeError", <<>>, 0)
    ELSE LET r == pseudo_experiment(self.test_set, a)
         IN  Outcome(IF r.exc = "ok" THEN [self EXCEPT !.test_set = r.ret]
                     ELSE self, r.exc, r.ret, r.calls, 0)

\* A slip in the attribute name: the train set is resampled.
generate_from_train(self, a) ==
    IF self.train_set = NoAttr THEN Raise(self, "AttributeError", <<>>, 0)
    ELSE LET r == pseudo_experiment(self.train_set, a)
         IN  Outcome(self, r.exc, r.ret, r.calls, 0)

\* Data.generate_psuedo_exp_data
generate_psuedo_exp_data(self, a) ==
    IF self.test_set = NoAttr THEN Raise(self, "AttributeError", <<>>, 0)
    ELSE LET r == pseudo_experiment(self.test_set, a)
         IN  Outcome(self, r.exc, r.ret, r.calls, 0)

\* A slip: the varied train set replaces the stored one.
get_syst_train_set_stored(self, a, disk) ==
    IF self.train_set = NoAttr THEN Raise(self, "AttributeError", <<>>, 0)
    ELSE
    LET loaded ==
            IF self.train_set = None THEN load_train_set(self, disk)
            ELSE Return(self, None, <<>>, 0)
        systArgs == <<loaded.self.train_set, a.tes, a.jes, a.soft_met,
                      a.ttbar_scale, a.diboson_scale, a.bkg_scale>>
        result ==
            systematics(loaded.self.train_set, a.tes, a.jes, a.soft_met,
                        a.ttbar_scale, a.diboson_scale, a.bkg_scale)
        calls == <<Call("systematics", systArgs)>>
    IN  IF loaded.exc # "ok" THEN loaded
        ELSE IF result.exc # "ok"
             THEN Raise(loaded.self, result.exc, calls, loaded.loads)
        ELSE Return([loaded.self EXCEPT !.train_set = result.v], result.v,
                    calls, loaded.loads)

\* Data.get_syst_train_set
get_syst_train_set(self, a, disk) ==
    IF self.train_set = NoAttr THEN Raise(self, "AttributeError", <<>>, 0)
    ELSE
    LET loaded ==
            IF self.train_set = None THEN load_train_set(self, disk)
            ELSE Return(self, None, <<>>, 0)
        systArgs == <<loaded.self.train_set, a.tes, a.jes, a.soft_met,
                      a.ttbar_scale, a.diboson_scale, a.bkg_scale>>
        result ==
            systematics(loaded.self.train_set, a.tes, a.jes, a.soft_met,
                        a.ttbar_scale, a.diboson_scale, a.bkg_scale)
        calls == <<Call("systematics", systArgs)>>
    IN  IF loaded.exc # "ok" THEN loaded
        ELSE IF result.exc # "ok"
             THEN Raise(loaded.self, result.exc, calls, loaded.loads)
        ELSE Return(loaded.self, result.v, calls, loaded.loads)

(***************************************************************************)
(* The state: the attributes of one Data object, and the last call made on *)
(* it with its inputs and its outcome.                                     *)
(***************************************************************************)
Self ==
    [train_set |-> train_set, test_set |-> test_set,
     ground_truth_mus |-> ground_truth_mus]

\* The call just made: the method, its inputs, the object it was made on
\* and its outcome.
Called(op, args, disk, r) ==
    [op |-> op, args |-> args, disk |-> disk, before |-> Self, exc |-> r.exc,
     ret |-> r.ret, calls |-> r.calls, loads |-> r.loads]

Apply(op, args, disk, r) ==
    /\ train_set' = r.self.train_set
    /\ test_set' = r.self.test_set
    /\ ground_truth_mus' = r.self.ground_truth_mus
    /\ last' = Called(op, args, disk, r)

NoArgs == [tag |-> "noargs"]

Init ==
    /\ train_set = DataInit.train_set
    /\ test_set = DataInit.test_set
    /\ ground_truth_mus = DataInit.ground_truth_mus
    /\ last = Called("__init__", NoArgs, NoDisk, Return(DataInit, None, <<>>, 0))

LoadTrainSet ==
    \E disk \in TrainSnapshots :
        Apply("load_train_set", NoArgs, disk, load_train_set(Self, disk))

LoadTestSet ==
    \E disk \in TestSnapshots :
        Apply("load_test_set", NoArgs, disk, load_test_set(Self, disk))

GeneratePsuedoExpData ==
    \E a \in GenerateArgs :
        Apply("generate_psuedo_exp_data", a, NoDisk,
              generate_psuedo_exp_data(Self, a))

GetTrainSet == Apply("get_train_set", NoArgs, NoDisk, get_train_set(Self))

GetTestSet == Apply("get_test_set", NoArgs, NoDisk, get_test_set(Self))

DeleteTrainSet ==
    Apply("delete_train_set", NoArgs, NoDisk, delete_train_set(Self))

\* The disk matters only to a call that loads; a call that does not read
\* is made once, whatever the disk holds.
GetSystTrainSet ==
    \E a \in SystArgs :
        \E disk \in IF train_set = None THEN TrainSnapshots ELSE {NoDisk} :
            Apply("get_syst_train_set", a,
                  IF train_set = None THEN disk ELSE NoDisk,
                  get_syst_train_set(Self, a, disk))

Next ==
    \/ LoadTrainSet
    \/ LoadTestSet
    \/ GeneratePsuedoExpData
    \/ GetTrainSet
    \/ GetTestSet
    \/ DeleteTrainSet
    \/ GetSystTrainSet

Spec == Init /\ [][Next]_vars

(***************************************************************************)
(* Callers.  get_train_set and get_test_set return the dict the attribute  *)
(* holds, not a copy of it: an item assignment on the returned dict is an  *)
(* item assignment on the stored dict.                                     *)
(***************************************************************************)
\* returned[key] = c, where returned is the object a getter returned for
\* the attribute attr.  The callers here write the table of the train set
\* and the first table of the test set, right after the getter returned.
caller_setitem(self, attr, key, c) ==
    LET written == [self[attr] EXCEPT !.items[key] = c]
    IN  Return([self EXCEPT ![attr] = written], written, <<>>, 0)

CallerWritesTrainSet ==
    /\ last.op = "get_train_set"
    /\ last.exc = "ok"
    /\ IsDict(last.ret)
    /\ \E c \in Versions :
          Apply("caller_setitem", [attr |-> "train_set", key |-> "data"],
                NoDisk, caller_setitem(Self, "train_set", "data", c))

CallerWritesTestSet ==
    /\ last.op = "get_test_set"
    /\ last.exc = "ok"
    /\ IsDict(last.ret)
    /\ \E c \in Versions :
          Apply("caller_setitem", [attr |-> "test_set", key |-> TestKeyOrder[1]],
                NoDisk, caller_setitem(Self, "test_set", TestKeyOrder[1], c))

CallerNext ==
    \/ LoadTrainSet
    \/ LoadTestSet
    \/ GeneratePsuedoExpData
    \/ GetTrainSet
    \/ GetTestSet
    \/ DeleteTrainSet
    \/ GetSystTrainSet
    \/ CallerWritesTrainSet
    \/ CallerWritesTestSet

SpecCaller == Init /\ [][CallerNext]_vars

(***************************************************************************)
(* load_test_set one file read at a time, with readers of the test set     *)
(* running between its steps.  The call in progress is held in last: its   *)
(* directory, its local dict, the index i of the next key, and exc =       *)
(* "running" until it returns or raises.  seen is what the last reader     *)
(* got.                                                                    *)
(***************************************************************************)
\* A slip: the attribute is bound to the local dict before the loop, so
\* every table read is stored in the dict the object holds.
load_test_iter_installing(self, local, disk, i) ==
    LET key == TestKeyOrder[i]
        table == ReadFile(disk, test_data_path(key))
        filled == IF table.exc # "ok" THEN local
                  ELSE [local EXCEPT ![key] = table.v.c]
    IN  [self |-> [self EXCEPT !.test_set = Dict(filled)], local |-> filled,
         exc |-> table.exc]

\* One iteration of the for loop of load_test_set: the file of the i-th
\* key is read into the local dict.
load_test_iter(self, local, disk, i) ==
    LET key == TestKeyOrder[i]
        table == ReadFile(disk, test_data_path(key))
    IN  IF table.exc # "ok"
        THEN [self |-> self, local |-> local, exc |-> table.exc]
        ELSE [self |-> self, local |-> [local EXCEPT ![key] = table.v.c],
              exc |-> "ok"]

\* self.__test_set = test_set, after the loop.
load_test_install(self, local) == [self EXCEPT !.test_set = Dict(local)]

SetSelf(self) ==
    /\ train_set' = self.train_set
    /\ test_set' = self.test_set
    /\ ground_truth_mus' = self.ground_truth_mus

InterleavedInit ==
    /\ train_set = DataInit.train_set
    /\ test_set = DataInit.test_set
    /\ ground_truth_mus = DataInit.ground_truth_mus
    /\ last = [op |-> "__init__", disk |-> NoDisk, exc |-> "ok", i |-> 0,
               local |-> [k \in TestKeys |-> EmptyFrame], seen |-> None]

LoadTestSetBegins ==
    /\ last.exc # "running"
    /\ \E disk \in TestSnapshots :
          last' = [last EXCEPT !.op = "load_test_set", !.disk = disk,
                               !.exc = "running", !.i = 1,
                               !.local = [k \in TestKeys |-> EmptyFrame]]
    /\ UNCHANGED <<train_set, test_set, ground_truth_mus>>

LoadTestSetReads ==
    /\ last.exc = "running"
    /\ last.i <= Len(TestKeyOrder)
    /\ LET r == load_test_iter(Self, last.local, last.disk, last.i)
       IN  /\ SetSelf(r.self)
           /\ last' = IF r.exc # "ok" THEN [last EXCEPT !.exc = r.exc]
                       ELSE [last EXCEPT !.local = r.local, !.i = last.i + 1]

LoadTestSetInstalls ==
    /\ last.exc = "running"
    /\ last.i > Len(TestKeyOrder)
    /\ SetSelf(load_test_install(Self, last.local))
    /\ last' = [last EXCEPT !.exc = "ok"]

ReaderGetsTestSet ==
    /\ last' = [last EXCEPT !.seen = get_test_set(Self).ret]
    /\ UNCHANGED <<train_set, test_set, ground_truth_mus>>

ReaderGenerates ==
    /\ \E a \in GenerateArgs :
          LET r == generate_psuedo_exp_data(Self, a)
          IN  /\ SetSelf(r.self)
              /\ last' = [last EXCEPT !.seen =
                              IF r.calls = <<>> THEN None
                              ELSE r.calls[1].args[1]]

InterleavedNext ==
    \/ LoadTestSetBegins
    \/ LoadTestSetReads
    \/ LoadTestSetInstalls
    \/ ReaderGetsTestSet
    \/ ReaderGenerates

SpecInterleaved == InterleavedInit /\ [][InterleavedNext]_vars

(***************************************************************************)
(* The train files as texts: an object is made on a directory whose        *)
(* labels, weights and detailed labels are any texts and whose table has   *)
(* any number of rows; load_train_set is called, then get_train_set.       *)
(***************************************************************************)
Chars == {"1", Newline}

RECURSIVE TextsOfLen(_)
TextsOfLen(n) ==
    IF n = 0 THEN {<<>>}
    ELSE {Append(t, c) : t \in TextsOfLen(n - 1), c \in Chars}

Texts == UNION {TextsOfLen(n) : n \in 0..MaxTextLen}

\* A table of n rows, as read_parquet returns it.
Table(n) == [i \in 1..n |-> "row"]

TextDirectory(labels, weights, detailed, rows) ==
    [f \in TrainFiles |->
        CASE f = train_labels_file -> Text(labels)
          [] f = train_weights_file -> Text(weights)
          [] f = train_detailed_labels_file -> Text(detailed)
          [] f = train_data_file -> Ok(Table(rows))
          [] OTHER -> Ok(1)]

TextDirectories ==
    {TextDirectory(l, w, d, n) :
        l \in Texts, w \in Texts, d \in Texts, n \in 0..MaxTextLen}

LinesInit ==
    /\ train_set = DataInit.train_set
    /\ test_set = DataInit.test_set
    /\ ground_truth_mus = DataInit.ground_truth_mus
    /\ \E disk \in TextDirectories :
          last = Called("__init__", NoArgs, disk,
                        Return(DataInit, None, <<>>, 0))

LinesLoadTrainSet ==
    /\ last.op = "__init__"
    /\ Apply("load_train_set", NoArgs, last.disk,
             load_train_set(Self, last.disk))

LinesGetTrainSet ==
    /\ last.op = "load_train_set"
    /\ Apply("get_train_set", NoArgs, last.disk, get_train_set(Self))

LinesNext ==
    \/ LinesLoadTrainSet
    \/ LinesGetTrainSet

SpecLines == LinesInit /\ [][LinesNext]_vars

(***************************************************************************)
(* Properties.                                                             *)
(***************************************************************************)
Loaded(partition) == IsDict(partition)

\* Absent: the value the constructor sets, or no attribute at all.
Absent(partition) == partition \in {None, NoAttr}

FileErrors == {"FileNotFoundError", "ValueError", "KeyError"}

\* C1: a load_train_set that ends in an exception leaves the train set as
\* it was before the call.
C1_FailedLoadTrainKeepsTrainSet ==
    [][(last'.op = "load_train_set" /\ last'.exc # "ok")
          => train_set' = train_set]_vars

\* C2: delete_train_set leaves the train set absent, and a delete_train_set
\* that directly follows a delete_train_set raises nothing.
C2_DeleteTrainSetIdempotent ==
    [][last'.op = "delete_train_set"
          => /\ Absent(train_set')
             /\ last.op = "delete_train_set" => last'.exc = "ok"]_vars

\* C3: get_train_set and get_test_set never raise; they return the stored
\* partition, or None (what they return on a new object) when it is absent.
C3_GettersAlwaysReturn ==
    /\ last.op = "get_train_set"
          => /\ last.exc = "ok"
             /\ last.ret = IF Loaded(train_set) THEN train_set ELSE None
    /\ last.op = "get_test_set"
          => /\ last.exc = "ok"
             /\ last.ret = IF Loaded(test_set) THEN test_set ELSE None

\* C4: generate_psuedo_exp_data on an absent test set raises a precondition
\* violation and calls no function of the systematics module.
C4_GenerateOnAbsentTestSetCallsNothing ==
    (last.op = "generate_psuedo_exp_data" /\ Absent(test_set))
        => last.exc = "PreconditionViolation" /\ last.calls = <<>>

\* C5: get_syst_train_set on an absent train set runs load_train_set exactly
\* once and, when that load succeeds, calls systematics and leaves the train
\* set loaded; on a loaded train set it runs no load.
C5_GetSystTrainSetLoadsOnceIfAbsent ==
    [][last'.op = "get_syst_train_set"
          => IF Absent(train_set)
             THEN /\ last'.loads = 1
                  /\ last'.exc \notin FileErrors
                        => Loaded(train_set') /\ Len(last'.calls) = 1
             ELSE last'.loads = 0]_vars

\* C6: a load_test_set that ends in an exception, whichever file caused it,
\* leaves the test set as it was before the call.
C6_FailedLoadTestKeepsTestSet ==
    [][(last'.op = "load_test_set" /\ last'.exc # "ok")
          => test_set' = test_set]_vars

\* C6 witness: a load_test_set failed after it had read, for the first key,
\* a table other than the one stored.
C6_Witness ==
    /\ last.op = "load_test_set"
    /\ last.exc = "FileNotFoundError"
    /\ Loaded(test_set)
    /\ last.disk[test_data_path(TestKeyOrder[1])].st = "ok"
    /\ last.disk[test_data_path(TestKeyOrder[1])].c
          # test_set.items[TestKeyOrder[1]]

\* C7: after a successful load_train_set the cached ground truth is the
\* ground_truth_mus of the test settings file as the call found it, and
\* load_test_set does not change it.
C7_GroundTruthFromTestSettings ==
    [][/\ (last'.op = "load_train_set" /\ last'.exc = "ok")
             => /\ last'.disk[test_settings_file].st = "ok"
                /\ ground_truth_mus' = Mus(last'.disk[test_settings_file].c)
       /\ last'.op = "load_test_set"
             => ground_truth_mus' = ground_truth_mus]_vars

\* C7 witness: load_train_set succeeded on an object whose test set was
\* never loaded, on a tree whose test settings differ from the train
\* settings.
C7_Witness ==
    /\ last.op = "load_train_set"
    /\ last.exc = "ok"
    /\ test_set = None
    /\ ground_truth_mus # NoAttr
    /\ last.disk[test_settings_file] # last.disk[train_settings_file]

\* C8: delete_train_set changes neither the test set nor the cached ground
\* truth.
C8_DeleteTrainSetFrame ==
    [][last'.op = "delete_train_set"
          => /\ test_set' = test_set
             /\ ground_truth_mus' = ground_truth_mus]_vars

\* C8 witness: delete_train_set removed the train set of an object that
\* holds a test set and a ground truth.
C8_Witness ==
    /\ last.op = "delete_train_set"
    /\ last.exc = "ok"
    /\ train_set = NoAttr
    /\ Loaded(test_set)
    /\ ground_truth_mus # NoAttr

\* C9: generate_psuedo_exp_data, whether it returns or raises, changes no
\* attribute of the object.
C9_GenerateReadOnly ==
    [][last'.op = "generate_psuedo_exp_data"
          => UNCHANGED <<train_set, test_set, ground_truth_mus>>]_vars

\* C9 witness: generate_psuedo_exp_data returned a data set on an object
\* that holds both partitions and a ground truth.
C9_Witness ==
    /\ last.op = "generate_psuedo_exp_data"
    /\ last.exc = "ok"
    /\ last.ret.tag = "get_systematics_dataset"
    /\ Loaded(train_set)
    /\ Loaded(test_set)
    /\ ground_truth_mus # NoAttr

\* The values the attributes other than the test set can have.
OtherTrainSets ==
    {None, NoAttr} \cup
    {Dict([data |-> v, labels |-> v, settings |-> v, weights |-> v,
           detailed_labels |-> v]) : v \in Versions}

OtherGroundTruths == {NoAttr} \cup {Mus(v) : v \in Versions}

\* C10: the outcome of generate_psuedo_exp_data is the outcome of the same
\* call, with the same parameters, on any object that holds the same test
\* set, whatever its other attributes are.
C10_GenerateDeterministic ==
    last.op = "generate_psuedo_exp_data"
        => \A t \in OtherTrainSets, g \in OtherGroundTruths :
              LET again ==
                      generate_psuedo_exp_data(
                          [train_set |-> t, test_set |-> test_set,
                           ground_truth_mus |-> g], last.args)
              IN  again.exc = last.exc /\ again.ret = last.ret

\* C10 witness: generate_psuedo_exp_data returned a data set resampled from
\* a loaded test set, on an object that also holds a train set.
C10_Witness ==
    /\ last.op = "generate_psuedo_exp_data"
    /\ last.exc = "ok"
    /\ Loaded(test_set)
    /\ Loaded(train_set)
    /\ last.ret.args[1].args[1] = test_set

\* C11: get_syst_train_set on a loaded train set leaves the stored train set
\* as it was, for every parameter tuple, and what it returns is what
\* systematics returned for the stored train set and the parameters.
C11_GetSystTrainSetKeepsTrainSet ==
    [][(last'.op = "get_syst_train_set" /\ Loaded(train_set))
          => /\ train_set' = train_set
             /\ last'.exc = "ok"
                   => last'.ret =
                         systematics(train_set, last'.args.tes, last'.args.jes,
                                     last'.args.soft_met,
                                     last'.args.ttbar_scale,
                                     last'.args.diboson_scale,
                                     last'.args.bkg_scale).v]_vars

\* C11 witness: get_syst_train_set returned a varied train set for a train
\* set that was loaded before the call.
C11_Witness ==
    /\ last.op = "get_syst_train_set"
    /\ last.exc = "ok"
    /\ last.loads = 0
    /\ Loaded(last.before.train_set)
    /\ last.ret.tag = "systematics"
    /\ last.ret.args[1] = train_set

\* The train set whose five fields are the contents of the five train
\* files of a directory.
TrainSetOf(disk) ==
    Dict([data |-> disk[train_data_file].c,
          labels |-> disk[train_labels_file].c,
          settings |-> disk[train_settings_file].c,
          weights |-> disk[train_weights_file].c,
          detailed_labels |-> disk[train_detailed_labels_file].c])

TrainFields == {"data", "labels", "settings", "weights", "detailed_labels"}

\* C12: after a successful load_train_set every field of the train set is
\* the contents of its file as the call found them, whatever the train set
\* was before.
C12_LoadTrainSetReplacesAllFields ==
    (last.op = "load_train_set" /\ last.exc = "ok")
        => train_set = TrainSetOf(last.disk)

\* C12 witness: load_train_set succeeded on an object that held a train set
\* all of whose fields differ from the files read.
C12_Witness ==
    /\ last.op = "load_train_set"
    /\ last.exc = "ok"
    /\ Loaded(last.before.train_set)
    /\ \A f \in TrainFields :
          last.before.train_set.items[f] # TrainSetOf(last.disk).items[f]

AllPresent(disk) == \A f \in DOMAIN disk : disk[f].st = "ok"

\* C13: load_train_set on an object whose train set was deleted succeeds
\* when all files are present and installs the contents on disk, and a
\* get_train_set that follows a successful load_train_set returns the train
\* set that load read.
C13_LoadTrainSetAfterDelete ==
    [][/\ (last'.op = "load_train_set" /\ train_set = NoAttr
            /\ AllPresent(last'.disk))
             => /\ last'.exc = "ok"
                /\ train_set' = TrainSetOf(last'.disk)
       /\ (last'.op = "get_train_set" /\ last.op = "load_train_set"
            /\ last.exc = "ok")
             => /\ last'.exc = "ok"
                /\ last'.ret = TrainSetOf(last.disk)]_vars

\* C13 witness: load_train_set succeeded on an object whose train set had
\* been deleted.
C13_Witness ==
    /\ last.op = "load_train_set"
    /\ last.exc = "ok"
    /\ last.before.train_set = NoAttr
    /\ train_set = TrainSetOf(last.disk)

\* C14: the test set is absent at first; only a successful load_test_set
\* changes it; and once loaded it is loaded after every call.
C14_TestSetLifecycle ==
    /\ test_set = None
    /\ [][/\ test_set' # test_set
                => last'.op = "load_test_set" /\ last'.exc = "ok"
          /\ Loaded(test_set) => Loaded(test_set')]_vars

\* C14 witness: an object with a loaded test set went through a call that
\* removed its train set, and holds the same test set.
C14_Witness ==
    /\ last.op = "delete_train_set"
    /\ last.exc = "ok"
    /\ Loaded(last.before.test_set)
    /\ Loaded(last.before.train_set)
    /\ test_set = last.before.test_set

\* The number of lines of a text: one per line break, and one more when
\* characters follow the last line break.
RECURSIVE Breaks(_)
Breaks(text) ==
    IF text = <<>> THEN 0
    ELSE Breaks(Tail(text)) + (IF Head(text) = Newline THEN 1 ELSE 0)

LineCount(text) ==
    Breaks(text)
        + (IF text # <<>> /\ text[Len(text)] # Newline THEN 1 ELSE 0)

\* The train files of the directory hold the same number of rows and lines.
SameLineCount(disk) ==
    /\ LineCount(disk[train_weights_file].text)
          = LineCount(disk[train_labels_file].text)
    /\ LineCount(disk[train_detailed_labels_file].text)
          = LineCount(disk[train_labels_file].text)
    /\ Len(disk[train_data_file].c)
          = LineCount(disk[train_labels_file].text)

C16_GenerateCallsInOrder ==
    (last.op = "generate_psuedo_exp_data" /\ Loaded(test_set))
        => LET a == last.args
               boot == get_bootstraped_dataset(test_set, a.set_mu,
                           a.ttbar_scale, a.diboson_scale, a.bkg_scale, a.seed)
               syst == get_systematics_dataset(boot.v, a.tes, a.jes, a.soft_met)
               first == Call("get_bootstraped_dataset",
                             <<test_set, a.set_mu, a.ttbar_scale,
                               a.diboson_scale, a.bkg_scale, a.seed>>)
               second == Call("get_systematics_dataset",
                              <<boot.v, a.tes, a.jes, a.soft_met>>)
           IN  IF boot.exc # "ok"
               THEN last.calls = <<first>> /\ last.exc = boot.exc
               ELSE /\ last.calls = <<first, second>>
                    /\ last.exc = syst.exc
                    /\ syst.exc = "ok" => last.ret = syst.v

\* C16 witness: generate_psuedo_exp_data on a loaded test set made both
\* calls and returned the result of the second.
C16_Witness ==
    /\ last.op = "generate_psuedo_exp_data"
    /\ Loaded(test_set)
    /\ last.exc = "ok"
    /\ Len(last.calls) = 2
    /\ last.calls[2].args[1].tag = "get_bootstraped_dataset"
    /\ last.ret.tag = "get_systematics_dataset"

\* C17: an item assignment by a caller on the object a getter returned
\* changes neither the stored train set nor the stored test set.
C17_ReturnedObjectsAreNotTheStoredOnes ==
    [][last'.op = "caller_setitem"
          => train_set' = train_set /\ test_set' = test_set]_vars

\* C18: whenever the train set is loaded the ground truth exists, and a
\* call that installs a train set also installs the ground truth it read
\* from the test settings of the same directory.
C18_TrainSetComesWithItsGroundTruth ==
    [][Loaded(train_set')
          => /\ ground_truth_mus' # NoAttr
             /\ (train_set' # train_set /\ last'.loads = 1)
                   => /\ last'.disk[test_settings_file].st = "ok"
                      /\ ground_truth_mus'
                            = Mus(last'.disk[test_settings_file].c)]_vars

\* The test set whose four tables are the contents of the four files of a
\* directory.
TestSetOf(disk) == Dict([k \in TestKeys |-> disk[test_data_path(k)].c])

\* Absent, or a dict of exactly the four keys whose tables are the four
\* files of one directory.
WholeTestSet(t) ==
    \/ t = None
    \/ /\ IsDict(t)
       /\ DOMAIN t.items = TestKeys
       /\ \E disk \in TestSnapshots : AllPresent(disk) /\ t = TestSetOf(disk)

\* C19: at every step of a load_test_set, and between its steps, the stored
\* test set and the test set a reader gets (from get_test_set, or passed
\* on by generate_psuedo_exp_data) are absent or the four tables of one
\* directory; the stored test set changes only when a load_test_set that
\* has read all four files installs what it read.
C19_TestSetAlwaysWhole ==
    [][/\ WholeTestSet(test_set')
       /\ WholeTestSet(last'.seen)
       /\ test_set' # test_set
             => /\ last.exc = "running"
                /\ last'.exc = "ok"
                /\ AllPresent(last.disk)
                /\ test_set' = TestSetOf(last.disk)]_vars

\* C19 witness: a reader got the stored test set while a load_test_set had
\* read two files, the first with a table other than the stored one.
C19_Witness ==
    /\ last.op = "load_test_set"
    /\ last.exc = "running"
    /\ last.i = 3
    /\ Loaded(test_set)
    /\ last.seen = test_set
    /\ last.local[TestKeyOrder[1]] # test_set.items[TestKeyOrder[1]]

\* C20: load_test_set, whether it returns or raises, leaves the train set
\* and the ground truth as they were, and load_train_set, whether it
\* returns or raises, leaves the test set as it was.
C20_LoadsAreIndependent ==
    [][/\ last'.op = "load_test_set"
             => /\ train_set' = train_set
                /\ ground_truth_mus' = ground_truth_mus
       /\ last'.op = "load_train_set" => test_set' = test_set]_vars

\* C20 witness: load_test_set replaced the test set of an object that holds
\* a train set and a ground truth.
C20_Witness ==
    /\ last.op = "load_test_set"
    /\ last.exc = "ok"
    /\ Loaded(last.before.test_set)
    /\ test_set # last.before.test_set
    /\ Loaded(train_set)
    /\ train_set = last.before.train_set
    /\ ground_truth_mus # NoAttr

====
